---- MODULE Spec2Model ----
(***************************************************************************)
(* Model of MapCreator.create_map_optimized (src/app.py): the residential  *)
(* index build, the point pass over the power objects, the line pass over  *)
(* the ways, and the voltage-to-thickness function get_thickness.          *)
(*                                                                         *)
(* Coordinates are integers counting 1e-5 degree (a "unit"); a position is *)
(* <<lat, lon>> as in the code's (lat, lon) tuples.  A distance is kept as *)
(* its reading in centimetres, rounded up.  Strings that the code parses   *)
(* (the voltage tag) are sequences of one-character strings.               *)
(***************************************************************************)
EXTENDS Integers, Sequences, FiniteSets, Bags, TLC

VARIABLES
    pc,                 \* position of the run inside create_map_optimized
    nodes,              \* self.nodes: node id -> <<lat, lon>>
    residential_nodes,  \* self.residential_nodes: list of raw node records
    meters,             \* geodesic(p, q).meters of this run's positions:
                        \* <<p, q>> -> reading
    res_index,          \* the rtree index: set of [id, box] entries
    pos,                \* number of residential records enumerated so far
    n_obj,              \* number of power objects iterated so far
    obj,                \* <<>> or <<[node_id, type_]>>: the object just iterated
    distance,           \* line 123 in that iteration: candidate -> reading
    n_way,              \* number of ways iterated so far
    way,                \* <<>> or <<way record>>: the way just iterated
    points,             \* the way's resolved vertex list (line 159)
    scanned,            \* the segments <<start_point, end_point>> scanned for it
    distance_to_line_segment,
                        \* lines 172-175 in that iteration:
                        \* <<segment number, candidate>> -> reading
    voltage,            \* the argument of the last get_thickness call
    thickness,          \* the value it returned (0 before any call)
    markers,            \* bag of red folium.Marker children added to map_osm
    error,              \* "" or the exception that ended the run
    tag_src             \* the entries the voltage tag under test was written from

vars == <<pc, nodes, residential_nodes, meters, res_index, pos, n_obj, obj,
          distance, n_way, way, points, scanned, distance_to_line_segment,
          voltage, thickness, markers, error, tag_src>>

(***************************************************************************)
(* Bounds of the model.                                                    *)
(***************************************************************************)
MaxRes == 2        \* longest residential list
MaxObj == 2        \* longest power-object list
MaxWays == 2       \* longest way list
MaxParts == 2      \* most semicolon-separated parts of a voltage tag

Abs(x) == IF x < 0 THEN -x ELSE x
Min2(a, b) == IF a <= b THEN a ELSE b
Max2(a, b) == IF a >= b THEN a ELSE b

(***************************************************************************)
(* geopy.distance.geodesic(a, b).meters on the WGS-84 ellipsoid.  The      *)
(* library returns a float d, and all that lines 124 and 178 do with it is *)
(* compare it with a whole number T of metres: d <= T holds exactly when   *)
(* the reading of d in centimetres, rounded up, is at most 100 T.  The     *)
(* model keeps that reading.  Integer arithmetic cannot tell the library's *)
(* float to the last bit, so geodesic(p, q) is not one reading but the set *)
(* of all readings the library's value can have, an interval lo..hi.  The  *)
(* library is a function: what it returns for a pair of positions is fixed *)
(* for the run, in the variable meters, at any reading of the set.         *)
(*                                                                         *)
(* Up to a few hundred metres the ellipsoidal distance is the local flat   *)
(* distance: the latitude difference times the length of a unit of         *)
(* latitude, the longitude difference (the short way round) times the      *)
(* length of a unit of longitude, both taken at the middle latitude of the *)
(* two points.  The lengths are tabulated per whole degree of latitude, in *)
(* nanometres per unit, and interpolated with fourth differences; the legs *)
(* are kept in micrometres.  The hypotenuse h of the legs is off the       *)
(* ellipsoidal distance by less than Slack micrometres (the rounding of    *)
(* the legs, the interpolation, and the convergence of the meridians,      *)
(* which grows with the square of the longitude difference and so matters  *)
(* near the poles); the readings are those of h - Slack to h + Slack.      *)
(* Mostly that is a single reading.  Where the flat triangle does not      *)
(* apply the interval only says how far the points are at least:           *)
(* FarLatCm when their parallels are more than FarCm apart, FarLonCm when  *)
(* the chord of the smaller parallel is, and nothing otherwise.            *)
(***************************************************************************)
HalfTurn == 18000000
FarCm == 32000
FarUm == FarCm * 10000
UnitsPerDegree == 100000
HalfUnitsPerDegree == 2 * UnitsPerDegree

\* the longest geodesic of the ellipsoid, rounded up to 20004 km
EarthCm == 2000400000

\* the longitude difference below which the flat triangle is used
NearUnits == 20000

\* points whose parallels lie FarCm apart by the middle latitude's scale
\* are at least this far apart (the scale varies by 1 % over the meridian)
FarLatCm == 30000

\* points whose longitudes lie FarCm apart along the smaller of their
\* parallels are at least this far apart (chord against arc: 2 / pi)
FarLonCm == 20000

\* the one element of a one-element set: Once({F(v) : v \in {e}}) is F(e)
\* with e computed a single time
Once(S) == CHOOSE x \in S : TRUE

\* length of a unit of latitude at -2, -1, 0, ..., 92 degrees, in nm
LatNmTable ==
    << 1105756282, 1105746140, 1105742758, 1105746140, 1105756282, 1105773172,
       1105796789, 1105827106, 1105864087, 1105907688, 1105957856, 1106014533,
       1106077651, 1106147135, 1106222901, 1106304861, 1106392916, 1106486962,
       1106586886, 1106692569, 1106803886, 1106920703, 1107042881, 1107170274,
       1107302730, 1107440091, 1107582191, 1107728861, 1107879925, 1108035203,
       1108194507, 1108357646, 1108524425, 1108694643, 1108868094, 1109044571,
       1109223860, 1109405745, 1109590007, 1109776422, 1109964766, 1110154811,
       1110346326, 1110539079, 1110732836, 1110927362, 1111122420, 1111317774,
       1111513185, 1111708415, 1111903226, 1112097380, 1112290640, 1112482769,
       1112673533, 1112862697, 1113050030, 1113235302, 1113418285, 1113598754,
       1113776487, 1113951266, 1114122875, 1114291102, 1114455740, 1114616585,
       1114773440, 1114926109, 1115074403, 1115218140, 1115357141, 1115491233,
       1115620251, 1115744034, 1115862428, 1115975286, 1116082468, 1116183841,
       1116279277, 1116368660, 1116451876, 1116528823, 1116599404, 1116663532,
       1116721126, 1116772115, 1116816435, 1116854030, 1116884854, 1116908869,
       1116926043, 1116936356, 1116939796, 1116936356, 1116926043 >>

\* length of a unit of longitude at -2, -1, 0, ..., 92 degrees, in nm
\* (the cosine is continued past the pole)
LonNmTable ==
    << 1112521315, 1113026498, 1113194908, 1113026498, 1112521315, 1111679505,
       1110501308, 1108987062, 1107137201, 1104952254, 1102432847, 1099579703,
       1096393641, 1092875573, 1089026511, 1084847559, 1080339919, 1075504887,
       1070343855, 1064858308, 1059049827, 1052920089, 1046470863, 1039704012,
       1032621494, 1025225358, 1017517749, 1009500903, 1001177147, 992548902,
       983618680, 974389082, 964862803, 955042624, 944931418, 934532147,
       923847861, 912881696, 901636878, 890116717, 878324610, 866264039,
       853938570, 841351851, 828507616, 815409678, 802061931, 788468351,
       774632991, 760559983, 746253536, 731717934, 716957536, 701976777,
       686780161, 671372265, 655757738, 639941293, 623927715, 607721853,
       591328620, 574752995, 558000016, 541074782, 523982452, 506728240,
       489317418, 471755311, 454047294, 436198797, 418215294, 400102310,
       381865413, 363510214, 345042368, 326467567, 307791541, 289020058,
       270158918, 251213951, 232191022, 213096018, 193934855, 174713472,
       155437830, 136113907, 116747702, 97345226, 77912504, 58455573,
       38980477, 19493267, 0, -19493267, -38980477 >>

\* floor(a * t / 200000) for 0 <= t <= 200000, within 32 bits
Frac(a, t) ==
    LET ah == a \div HalfUnitsPerDegree
        al == a % HalfUnitsPerDegree
        th == t \div 1000
        tl == t % 1000
    IN  ah * t + (al * th + (al * tl) \div 1000) \div 200

\* the step from entry i to the next
Step(T, i) == T[i + 1] - T[i]

\* the entry at degree d and the central differences around it
Differences(T, d) ==
    LET i == d + 3
    IN  << T[i],
           Step(T, i),
           Step(T, i) - Step(T, i - 1),
           Step(T, i + 1) - 2 * Step(T, i) + Step(T, i - 1),
           Step(T, i + 1) - 3 * Step(T, i) + 3 * Step(T, i - 1) - Step(T, i - 2) >>

\* the value at t half-units past the entry D[1] (Gauss's forward formula;
\* the correction is summed in hundredths of a nanometre)
Blend(D, t) ==
    Once({ D[1] + ( Frac(100 * D[2], t)
                      - a2 \div 20
                      - (a3 + Frac(a3, t)) \div 600
                      + (a4 + Frac(a4, t) + Frac(a4 + Frac(a4, t), HalfUnitsPerDegree - t)) \div 24000
                      + 50 ) \div 100 :
           a2 \in {Frac(Frac(1000 * D[3], t), HalfUnitsPerDegree - t)},
           a3 \in {Frac(Frac(10000 * D[4], t), HalfUnitsPerDegree - t)},
           a4 \in {Frac(Frac(100000 * D[5], t), HalfUnitsPerDegree - t)} })

\* the table T at a latitude given in half-units (twice the latitude)
Interpolate(T, half) ==
    IF Abs(half) \div HalfUnitsPerDegree >= 90 THEN T[93]
    ELSE Once({ Blend(D, t) :
                D \in {Differences(T, Abs(half) \div HalfUnitsPerDegree)},
                t \in {Abs(half) % HalfUnitsPerDegree} })

LatNmPerUnit(half) == Interpolate(LatNmTable, half)
LonNmPerUnit(half) == Interpolate(LonNmTable, half)

\* d units along one axis, in micrometres (rounded)
Leg(d, scale) ==
    IF scale <= 0 THEN 0
    ELSE IF scale >= 1000 /\ d > FarUm \div (scale \div 1000) THEN FarUm
    ELSE Min2(FarUm, d * (scale \div 1000) + (d \div 1000) * (scale % 1000)
                       + ((d % 1000) * (scale % 1000) + 500) \div 1000)

RECURSIVE SqrtSearch(_, _, _)
\* least k in lo+1..hi with k*k >= n, given lo*lo < n <= hi*hi, by bisection
SqrtSearch(n, lo, hi) ==
    IF hi - lo <= 1 THEN hi
    ELSE Once({ IF mid * mid >= n THEN SqrtSearch(n, lo, mid)
                                  ELSE SqrtSearch(n, mid, hi) :
                mid \in {(lo + hi) \div 2} })

\* math.ceil(math.sqrt(n)) for 0 <= n <= 46340 * 46340
CeilSqrt(n) ==
    IF n = 0 THEN 0 ELSE Once({SqrtSearch(v, 0, 46340) : v \in {n}})

\* x * x written to the base 10000, lowest place first (the places are not
\* reduced: each may exceed the base)
SquarePlaces(x) ==
    LET x0 == x % 10000
        x1 == (x \div 10000) % 10000
        x2 == x \div 100000000
    IN  << x0 * x0, 2 * x0 * x1, 2 * x0 * x2 + x1 * x1, 2 * x1 * x2, x2 * x2 >>

RECURSIVE PlacesSign(_, _, _)
\* the sign of the number with places D[1..i] below the leading part r; a
\* leading part beyond 50000 in size outweighs whatever the places below add
PlacesSign(D, i, r) ==
    IF i = 0 THEN r
    ELSE Once({ PlacesSign(D, i - 1, Max2(-50000, Min2(50000, v))) :
                v \in {r * 10000 + D[i]} })

\* the sign of dx^2 + dy^2 - r^2, all three in micrometres
Excess(dx, dy, r) ==
    Once({ PlacesSign([i \in 1..5 |-> a[i] + b[i] - c[i]], 5, 0) :
           a \in {SquarePlaces(dx)},
           b \in {SquarePlaces(dy)},
           c \in {SquarePlaces(r)} })

LonDiff(a, b) ==
    LET d == Abs(a - b) IN IF d > HalfTurn THEN 2 * HalfTurn - d ELSE d

\* how far, in micrometres, the ellipsoidal distance can lie from the
\* hypotenuse of the legs dx and dy that stand for u units of longitude and
\* v units of latitude (u < NearUnits, both legs below FarUm)
Slack(u, v, dx, dy) ==
    2 + (u + v) \div 400
      + (CeilSqrt((dx \div 10000 + 1) * (dx \div 10000 + 1)
                    + (dy \div 10000 + 1) * (dy \div 10000 + 1))
           * (u \div 1000 + 1) * (u \div 1000 + 1)) \div 12000

\* r micrometres are at least the hypotenuse of the legs
Reaches(dx, dy, r) == r >= 0 /\ Excess(dx, dy, r) <= 0

RECURSIVE CeilCmFrom(_, _, _, _)
\* the least k >= from with 10000 k + s micrometres reaching the hypotenuse
CeilCmFrom(dx, dy, s, from) ==
    Once({ IF Reaches(dx, dy, 10000 * k + s) THEN k
           ELSE CeilCmFrom(dx, dy, s, k + 1) :
           k \in {from} })

\* <<lo, hi>>: the readings of h - Slack and of h + Slack, h the hypotenuse
\* (the search starts two below the rounded-up hypotenuse of the legs cut to
\* whole centimetres, which is at most the reading sought)
NearBounds(u, v, dx, dy) ==
    Once({ << CeilCmFrom(dx, dy, s, k), CeilCmFrom(dx, dy, -s, k) >> :
           s \in {Slack(u, v, dx, dy)},
           k \in {Max2(0, CeilSqrt((dx \div 10000) * (dx \div 10000)
                                     + (dy \div 10000) * (dy \div 10000)) - 2)} })

\* <<lo, hi>>: the least and the greatest reading of the distance from p to q
DistanceBounds(p, q) ==
    Once({ IF u = 0 /\ v = 0 THEN <<0, 0>>
           ELSE Once({ IF dy >= FarUm THEN <<FarLatCm, EarthCm>>
                       ELSE IF Leg(u, LonNmPerUnit(2 * Max2(Abs(p[1]), Abs(q[1])))) >= FarUm
                       THEN <<FarLonCm, EarthCm>>
                       ELSE Once({ IF dx >= FarUm \/ u >= NearUnits THEN <<0, EarthCm>>
                                   ELSE NearBounds(u, v, dx, dy) :
                                   dx \in {Leg(u, LonNmPerUnit(p[1] + q[1]))} }) :
                       dy \in {Leg(v, LatNmPerUnit(p[1] + q[1]))} }) :
           u \in {LonDiff(p[2], q[2])},
           v \in {Abs(p[1] - q[1])} })

\* min(a, b), lines 172-175, of two distances known by their bounds: every
\* reading from the lesser lo to the lesser hi
MinBounds(a, b) == << Min2(a[1], b[1]), Min2(a[2], b[2]) >>

\* metres (the unit of the thresholds) to the centimetres of a reading
Meters(m) == m * 100

(***************************************************************************)
(* Coordinates are float64 in the code: the unit count n stands for the    *)
(* float nearest to n / 100000, and the edge of a query box is the float   *)
(* sum of such a coordinate and -0.01 or +0.01, which need not be the      *)
(* float nearest to (n - 1000) / 100000 or (n + 1000) / 100000.  Floats    *)
(* are therefore ranked on a doubled scale: the float of n has rank 2 n,   *)
(* and a sum that rounds to the float just below or just above the float   *)
(* of n + p has rank 2 (n + p) - 1 or 2 (n + p) + 1.  Which of the three   *)
(* it is follows from the rounding errors of the three floats involved,    *)
(* computed here exactly in integers.                                      *)
(***************************************************************************)
RECURSIVE Pow2Mod(_)
\* 2^j modulo 5^5
Pow2Mod(j) == IF j = 0 THEN 1 ELSE (2 * Pow2Mod(j - 1)) % 3125

TwoPowerMod == [j \in 0..63 |-> Pow2Mod(j)]

\* the least n with n / 100000 >= 2^e
BinadeStart == [e \in -17..8 |-> IF e >= 0 THEN UnitsPerDegree * 2^e
                                 ELSE (UnitsPerDegree + 2^(-e) - 1) \div 2^(-e)]

\* the exponent e of n / 100000: 2^e <= n / 100000 < 2^(e+1), for n > 0
\* (counted down from the top, where the coordinates mostly are)
Binade(n) ==
    7 - (CHOOSE k \in 0..24 : BinadeStart[7 - k] <= n /\ n < BinadeStart[8 - k])

\* the n for which n / 100000 is a power of two
PowersOfTwo == {3125 * 2^j : j \in 0..12}

\* n * 2^(52 - e) modulo 200000: what the division by 100000 leaves over
\* after the 53-bit quotient, and the quotient's parity
Residue(n, e) == 64 * (((n % 3125) * TwoPowerMod[46 - e]) % 3125)

Sign(x) == IF x > 0 THEN 1 ELSE IF x < 0 THEN -1 ELSE 0

\* float(v / 100000): its exponent, its rounding error in units of 1/100000
\* of its last place, and whether its last bit is set (zero is exact; its
\* exponent is put above all others)
Rounded(v) ==
    IF v = 0 THEN [binade |-> 8, err |-> 0, odd |-> FALSE]
    ELSE Once({ [ binade |-> x[1],
                  err    |-> Sign(v) * (IF x[2] % UnitsPerDegree < UnitsPerDegree \div 2
                                        THEN -(x[2] % UnitsPerDegree)
                                        ELSE UnitsPerDegree - (x[2] % UnitsPerDegree)),
                  odd    |-> (((x[2] \div UnitsPerDegree)
                                + (IF x[2] % UnitsPerDegree >= UnitsPerDegree \div 2 THEN 1 ELSE 0))
                               % 2) = 1 ] :
                x \in { Once({ <<e, Residue(Abs(v), e)>> : e \in {Binade(Abs(v))} }) } })

\* the rounding of an exact sum that lies d above a float, in units of which
\* half is half the float's last place: -1 the float below, 0 the float
\* itself, 1 the float above (round to nearest, ties to even; below a power
\* of two the floats lie twice as close)
Nearest(d, half, odd, power_of_two) ==
    IF d > 0
    THEN IF d > half \/ (d = half /\ odd) THEN 1 ELSE 0
    ELSE IF d < 0
    THEN IF power_of_two
         THEN IF -d > half \div 2 THEN -1 ELSE 0
         ELSE IF -d > half \/ (-d = half /\ odd) THEN -1 ELSE 0
    ELSE 0

\* where float(n/100000) + float(p/100000) falls against float((n+p)/100000),
\* for n + p > 0
SkewUp(n, p) ==
    Once({ Once({ Once({ Nearest(d, (UnitsPerDegree \div 2) * 2^(b.binade - low),
                                 b.odd, n + p \in PowersOfTwo) :
                         d \in { a.err * 2^(a.binade - low) + c.err * 2^(c.binade - low)
                                   - b.err * 2^(b.binade - low) } }) :
                  low \in {Min2(a.binade, Min2(c.binade, b.binade))} }) :
           a \in {Rounded(n)}, c \in {Rounded(p)}, b \in {Rounded(n + p)} })

Skew(n, p) ==
    IF n + p = 0 THEN 0
    ELSE IF n + p < 0 THEN -SkewUp(-n, -p)
    ELSE SkewUp(n, p)

\* the rank of float(n / 100000)
Rank(n) == 2 * n

\* the rank of float(n / 100000) + float(p / 100000)
SumRank(n, p) == 2 * (n + p) + Skew(n, p)

(***************************************************************************)
(* rtree: insert stores (id, box); intersection returns the ids of the     *)
(* entries whose box meets the query box (closed boxes).  A box is         *)
(* <<minx, miny, maxx, maxy>> with x = lon, y = lat, each given by rank.   *)
(***************************************************************************)
BoxesMeet(a, b) ==
    /\ a[1] <= b[3] /\ b[1] <= a[3]
    /\ a[2] <= b[4] /\ b[2] <= a[4]

intersection(idx, box) ==
    Once({ {e.id : e \in {x \in idx : BoxesMeet(x.box, b)}} : b \in {box} })

\* the box a residential node is inserted with, line 105
NodeBox(lat, lon) == <<Rank(lon), Rank(lat), Rank(lon), Rank(lat)>>

Pad == 1000     \* 0.01 degree

\* the query box without the padding
PointBox_unpadded(lat, lon) == <<Rank(lon), Rank(lat), Rank(lon), Rank(lat)>>

\* the query box of a power object at (lat, lon), line 119
PointBox(lat, lon) ==
    << SumRank(lon, -Pad), SumRank(lat, -Pad), SumRank(lon, Pad), SumRank(lat, Pad) >>

\* the query box of a segment, lines 165-168
SegmentBox(start_point, end_point) ==
    << SumRank(Min2(start_point[2], end_point[2]), -Pad),
       SumRank(Min2(start_point[1], end_point[1]), -Pad),
       SumRank(Max2(start_point[2], end_point[2]), Pad),
       SumRank(Max2(start_point[1], end_point[1]), Pad) >>

(***************************************************************************)
(* The threshold table of line 99.                                         *)
(***************************************************************************)
distances ==
    ("Communication Tower" :> 45) @@ ("Substation" :> 10) @@
    ("Transformer" :> 10) @@ ("Converter" :> 10)

\* distances.get('power_line', 1), line 178
PowerLineFactor == IF "power_line" \in DOMAIN distances THEN distances["power_line"] ELSE 1

(***************************************************************************)
(* Text.  A string is a sequence of one-character strings.  A character    *)
(* beyond U+00FF is written by its code point, as in "U+3000".             *)
(***************************************************************************)
\* int() reads every decimal digit of Unicode (category Nd): 66 scripts of
\* ten digits each, zero first
DigitRows ==
    << <<"0", "1", "2", "3", "4", "5", "6", "7", "8", "9">>,
       <<"U+0660", "U+0661", "U+0662", "U+0663", "U+0664", "U+0665", "U+0666", "U+0667", "U+0668", "U+0669">>,
       <<"U+06F0", "U+06F1", "U+06F2", "U+06F3", "U+06F4", "U+06F5", "U+06F6", "U+06F7", "U+06F8", "U+06F9">>,
       <<"U+07C0", "U+07C1", "U+07C2", "U+07C3", "U+07C4", "U+07C5", "U+07C6", "U+07C7", "U+07C8", "U+07C9">>,
       <<"U+0966", "U+0967", "U+0968", "U+0969", "U+096A", "U+096B", "U+096C", "U+096D", "U+096E", "U+096F">>,
       <<"U+09E6", "U+09E7", "U+09E8", "U+09E9", "U+09EA", "U+09EB", "U+09EC", "U+09ED", "U+09EE", "U+09EF">>,
       <<"U+0A66", "U+0A67", "U+0A68", "U+0A69", "U+0A6A", "U+0A6B", "U+0A6C", "U+0A6D", "U+0A6E", "U+0A6F">>,
       <<"U+0AE6", "U+0AE7", "U+0AE8", "U+0AE9", "U+0AEA", "U+0AEB", "U+0AEC", "U+0AED", "U+0AEE", "U+0AEF">>,
       <<"U+0B66", "U+0B67", "U+0B68", "U+0B69", "U+0B6A", "U+0B6B", "U+0B6C", "U+0B6D", "U+0B6E", "U+0B6F">>,
       <<"U+0BE6", "U+0BE7", "U+0BE8", "U+0BE9", "U+0BEA", "U+0BEB", "U+0BEC", "U+0BED", "U+0BEE", "U+0BEF">>,
       <<"U+0C66", "U+0C67", "U+0C68", "U+0C69", "U+0C6A", "U+0C6B", "U+0C6C", "U+0C6D", "U+0C6E", "U+0C6F">>,
       <<"U+0CE6", "U+0CE7", "U+0CE8", "U+0CE9", "U+0CEA", "U+0CEB", "U+0CEC", "U+0CED", "U+0CEE", "U+0CEF">>,
       <<"U+0D66", "U+0D67", "U+0D68", "U+0D69", "U+0D6A", "U+0D6B", "U+0D6C", "U+0D6D", "U+0D6E", "U+0D6F">>,
       <<"U+0DE6", "U+0DE7", "U+0DE8", "U+0DE9", "U+0DEA", "U+0DEB", "U+0DEC", "U+0DED", "U+0DEE", "U+0DEF">>,
       <<"U+0E50", "U+0E51", "U+0E52", "U+0E53", "U+0E54", "U+0E55", "U+0E56", "U+0E57", "U+0E58", "U+0E59">>,
       <<"U+0ED0", "U+0ED1", "U+0ED2", "U+0ED3", "U+0ED4", "U+0ED5", "U+0ED6", "U+0ED7", "U+0ED8", "U+0ED9">>,
       <<"U+0F20", "U+0F21", "U+0F22", "U+0F23", "U+0F24", "U+0F25", "U+0F26", "U+0F27", "U+0F28", "U+0F29">>,
       <<"U+1040", "U+1041", "U+1042", "U+1043", "U+1044", "U+1045", "U+1046", "U+1047", "U+1048", "U+1049">>,
       <<"U+1090", "U+1091", "U+1092", "U+1093", "U+1094", "U+1095", "U+1096", "U+1097", "U+1098", "U+1099">>,
       <<"U+17E0", "U+17E1", "U+17E2", "U+17E3", "U+17E4", "U+17E5", "U+17E6", "U+17E7", "U+17E8", "U+17E9">>,
       <<"U+1810", "U+1811", "U+1812", "U+1813", "U+1814", "U+1815", "U+1816", "U+1817", "U+1818", "U+1819">>,
       <<"U+1946", "U+1947", "U+1948", "U+1949", "U+194A", "U+194B", "U+194C", "U+194D", "U+194E", "U+194F">>,
       <<"U+19D0", "U+19D1", "U+19D2", "U+19D3", "U+19D4", "U+19D5", "U+19D6", "U+19D7", "U+19D8", "U+19D9">>,
       <<"U+1A80", "U+1A81", "U+1A82", "U+1A83", "U+1A84", "U+1A85", "U+1A86", "U+1A87", "U+1A88", "U+1A89">>,
       <<"U+1A90", "U+1A91", "U+1A92", "U+1A93", "U+1A94", "U+1A95", "U+1A96", "U+1A97", "U+1A98", "U+1A99">>,
       <<"U+1B50", "U+1B51", "U+1B52", "U+1B53", "U+1B54", "U+1B55", "U+1B56", "U+1B57", "U+1B58", "U+1B59">>,
       <<"U+1BB0", "U+1BB1", "U+1BB2", "U+1BB3", "U+1BB4", "U+1BB5", "U+1BB6", "U+1BB7", "U+1BB8", "U+1BB9">>,
       <<"U+1C40", "U+1C41", "U+1C42", "U+1C43", "U+1C44", "U+1C45", "U+1C46", "U+1C47", "U+1C48", "U+1C49">>,
       <<"U+1C50", "U+1C51", "U+1C52", "U+1C53", "U+1C54", "U+1C55", "U+1C56", "U+1C57", "U+1C58", "U+1C59">>,
       <<"U+A620", "U+A621", "U+A622", "U+A623", "U+A624", "U+A625", "U+A626", "U+A627", "U+A628", "U+A629">>,
       <<"U+A8D0", "U+A8D1", "U+A8D2", "U+A8D3", "U+A8D4", "U+A8D5", "U+A8D6", "U+A8D7", "U+A8D8", "U+A8D9">>,
       <<"U+A900", "U+A901", "U+A902", "U+A903", "U+A904", "U+A905", "U+A906", "U+A907", "U+A908", "U+A909">>,
       <<"U+A9D0", "U+A9D1", "U+A9D2", "U+A9D3", "U+A9D4", "U+A9D5", "U+A9D6", "U+A9D7", "U+A9D8", "U+A9D9">>,
       <<"U+A9F0", "U+A9F1", "U+A9F2", "U+A9F3", "U+A9F4", "U+A9F5", "U+A9F6", "U+A9F7", "U+A9F8", "U+A9F9">>,
       <<"U+AA50", "U+AA51", "U+AA52", "U+AA53", "U+AA54", "U+AA55", "U+AA56", "U+AA57", "U+AA58", "U+AA59">>,
       <<"U+ABF0", "U+ABF1", "U+ABF2", "U+ABF3", "U+ABF4", "U+ABF5", "U+ABF6", "U+ABF7", "U+ABF8", "U+ABF9">>,
       <<"U+FF10", "U+FF11", "U+FF12", "U+FF13", "U+FF14", "U+FF15", "U+FF16", "U+FF17", "U+FF18", "U+FF19">>,
       <<"U+104A0", "U+104A1", "U+104A2", "U+104A3", "U+104A4", "U+104A5", "U+104A6", "U+104A7", "U+104A8", "U+104A9">>,
       <<"U+10D30", "U+10D31", "U+10D32", "U+10D33", "U+10D34", "U+10D35", "U+10D36", "U+10D37", "U+10D38", "U+10D39">>,
       <<"U+11066", "U+11067", "U+11068", "U+11069", "U+1106A", "U+1106B", "U+1106C", "U+1106D", "U+1106E", "U+1106F">>,
       <<"U+110F0", "U+110F1", "U+110F2", "U+110F3", "U+110F4", "U+110F5", "U+110F6", "U+110F7", "U+110F8", "U+110F9">>,
       <<"U+11136", "U+11137", "U+11138", "U+11139", "U+1113A", "U+1113B", "U+1113C", "U+1113D", "U+1113E", "U+1113F">>,
       <<"U+111D0", "U+111D1", "U+111D2", "U+111D3", "U+111D4", "U+111D5", "U+111D6", "U+111D7", "U+111D8", "U+111D9">>,
       <<"U+112F0", "U+112F1", "U+112F2", "U+112F3", "U+112F4", "U+112F5", "U+112F6", "U+112F7", "U+112F8", "U+112F9">>,
       <<"U+11450", "U+11451", "U+11452", "U+11453", "U+11454", "U+11455", "U+11456", "U+11457", "U+11458", "U+11459">>,
       <<"U+114D0", "U+114D1", "U+114D2", "U+114D3", "U+114D4", "U+114D5", "U+114D6", "U+114D7", "U+114D8", "U+114D9">>,
       <<"U+11650", "U+11651", "U+11652", "U+11653", "U+11654", "U+11655", "U+11656", "U+11657", "U+11658", "U+11659">>,
       <<"U+116C0", "U+116C1", "U+116C2", "U+116C3", "U+116C4", "U+116C5", "U+116C6", "U+116C7", "U+116C8", "U+116C9">>,
       <<"U+11730", "U+11731", "U+11732", "U+11733", "U+11734", "U+11735", "U+11736", "U+11737", "U+11738", "U+11739">>,
       <<"U+118E0", "U+118E1", "U+118E2", "U+118E3", "U+118E4", "U+118E5", "U+118E6", "U+118E7", "U+118E8", "U+118E9">>,
       <<"U+11950", "U+11951", "U+11952", "U+11953", "U+11954", "U+11955", "U+11956", "U+11957", "U+11958", "U+11959">>,
       <<"U+11C50", "U+11C51", "U+11C52", "U+11C53", "U+11C54", "U+11C55", "U+11C56", "U+11C57", "U+11C58", "U+11C59">>,
       <<"U+11D50", "U+11D51", "U+11D52", "U+11D53", "U+11D54", "U+11D55", "U+11D56", "U+11D57", "U+11D58", "U+11D59">>,
       <<"U+11DA0", "U+11DA1", "U+11DA2", "U+11DA3", "U+11DA4", "U+11DA5", "U+11DA6", "U+11DA7", "U+11DA8", "U+11DA9">>,
       <<"U+16A60", "U+16A61", "U+16A62", "U+16A63", "U+16A64", "U+16A65", "U+16A66", "U+16A67", "U+16A68", "U+16A69">>,
       <<"U+16AC0", "U+16AC1", "U+16AC2", "U+16AC3", "U+16AC4", "U+16AC5", "U+16AC6", "U+16AC7", "U+16AC8", "U+16AC9">>,
       <<"U+16B50", "U+16B51", "U+16B52", "U+16B53", "U+16B54", "U+16B55", "U+16B56", "U+16B57", "U+16B58", "U+16B59">>,
       <<"U+1D7CE", "U+1D7CF", "U+1D7D0", "U+1D7D1", "U+1D7D2", "U+1D7D3", "U+1D7D4", "U+1D7D5", "U+1D7D6", "U+1D7D7">>,
       <<"U+1D7D8", "U+1D7D9", "U+1D7DA", "U+1D7DB", "U+1D7DC", "U+1D7DD", "U+1D7DE", "U+1D7DF", "U+1D7E0", "U+1D7E1">>,
       <<"U+1D7E2", "U+1D7E3", "U+1D7E4", "U+1D7E5", "U+1D7E6", "U+1D7E7", "U+1D7E8", "U+1D7E9", "U+1D7EA", "U+1D7EB">>,
       <<"U+1D7EC", "U+1D7ED", "U+1D7EE", "U+1D7EF", "U+1D7F0", "U+1D7F1", "U+1D7F2", "U+1D7F3", "U+1D7F4", "U+1D7F5">>,
       <<"U+1D7F6", "U+1D7F7", "U+1D7F8", "U+1D7F9", "U+1D7FA", "U+1D7FB", "U+1D7FC", "U+1D7FD", "U+1D7FE", "U+1D7FF">>,
       <<"U+1E140", "U+1E141", "U+1E142", "U+1E143", "U+1E144", "U+1E145", "U+1E146", "U+1E147", "U+1E148", "U+1E149">>,
       <<"U+1E2F0", "U+1E2F1", "U+1E2F2", "U+1E2F3", "U+1E2F4", "U+1E2F5", "U+1E2F6", "U+1E2F7", "U+1E2F8", "U+1E2F9">>,
       <<"U+1E950", "U+1E951", "U+1E952", "U+1E953", "U+1E954", "U+1E955", "U+1E956", "U+1E957", "U+1E958", "U+1E959">>,
       <<"U+1FBF0", "U+1FBF1", "U+1FBF2", "U+1FBF3", "U+1FBF4", "U+1FBF5", "U+1FBF6", "U+1FBF7", "U+1FBF8", "U+1FBF9">> >>

DigitChars == DigitRows[1]

\* the value of every decimal digit
DigitValue ==
    [c \in UNION {{DigitRows[r][i] : i \in 1..10} : r \in 1..Len(DigitRows)} |->
        (CHOOSE i \in 1..10 : \E r \in 1..Len(DigitRows) : DigitRows[r][i] = c) - 1]

IsDigit(c) == c \in DOMAIN DigitValue
DigitVal(c) == DigitValue[c]

\* the whitespace int() skips around the number: tab, line feed, vertical
\* tab, form feed, carriage return, the blank, and the spaces of Unicode
\* beyond ASCII (the separators U+001C to U+001F are not among them)
Whitespace ==
    {"\t", "\n", "", "\f", "\r", " ", "", " ",
     "U+1680", "U+2000", "U+2001", "U+2002", "U+2003", "U+2004", "U+2005",
     "U+2006", "U+2007", "U+2008", "U+2009", "U+200A", "U+2028", "U+2029",
     "U+202F", "U+205F", "U+3000"}

\* str.split(sep): the parts between the separators, empty parts included
RECURSIVE split(_, _)
split(s, sep) ==
    IF \A i \in 1..Len(s) : s[i] # sep THEN <<s>>
    ELSE LET k == CHOOSE i \in 1..Len(s) :
                     s[i] = sep /\ \A j \in 1..(i - 1) : s[j] # sep
         IN  <<SubSeq(s, 1, k - 1)>> \o split(SubSeq(s, k + 1, Len(s)), sep)

\* the stripping of leading and trailing whitespace that int() applies
RECURSIVE strip(_)
strip(s) ==
    IF s = <<>> THEN s
    ELSE IF s[1] \in Whitespace THEN strip(Tail(s))
    ELSE IF s[Len(s)] \in Whitespace THEN strip(SubSeq(s, 1, Len(s) - 1))
    ELSE s

\* the text after an optional sign
Unsigned(t) == IF t # <<>> /\ t[1] \in {"+", "-"} THEN Tail(t) ELSE t

\* int(s) accepts: whitespace, an optional sign, then digits, with single
\* underscores allowed between digits; anything else is a ValueError
IntParses(s) ==
    LET b == Unsigned(strip(s))
    IN  /\ b # <<>>
        /\ IsDigit(b[1])
        /\ IsDigit(b[Len(b)])
        /\ \A i \in 1..Len(b) : IsDigit(b[i]) \/ b[i] = "_"
        /\ \A i \in 1..(Len(b) - 1) : ~(b[i] = "_" /\ b[i + 1] = "_")

RECURSIVE DigitsValue(_, _)
DigitsValue(b, acc) ==
    IF b = <<>> THEN acc
    ELSE IF b[1] = "_" THEN DigitsValue(Tail(b), acc)
    ELSE DigitsValue(Tail(b), 10 * acc + DigitVal(b[1]))

\* int(s) for a text that IntParses
int(s) ==
    LET t == strip(s)
        v == DigitsValue(Unsigned(t), 0)
    IN  IF t[1] = "-" THEN -v ELSE v

RECURSIVE SeqMax(_)
SeqMax(q) == IF Len(q) = 1 THEN q[1] ELSE Max2(q[1], SeqMax(Tail(q)))

\* get_thickness with the second range closed at 20000
get_thickness_closed_range(v) ==
    IF v = <<>> THEN 40
    ELSE LET parts == split(v, ";")
         IN  IF \E i \in 1..Len(parts) : ~IntParses(parts[i]) THEN 20
             ELSE LET max_voltage == SeqMax([i \in 1..Len(parts) |-> int(parts[i])])
                  IN  IF max_voltage < 1000 THEN 2
                      ELSE IF max_voltage <= 20000 THEN 10
                      ELSE IF max_voltage = 35000 THEN 15
                      ELSE IF max_voltage = 110000 THEN 20
                      ELSE IF max_voltage \in {150000, 220000} THEN 25
                      ELSE IF max_voltage \in {330000, 400000, 500000} THEN 30
                      ELSE IF max_voltage = 750000 THEN 40
                      ELSE IF max_voltage = 1150000 THEN 55
                      ELSE 20

(***************************************************************************)
(* get_thickness, lines 132-156.  The tag value is a string; a missing tag *)
(* reaches the function as '' (the .get default of lines 176 and 185).     *)
(***************************************************************************)
get_thickness(v) ==
    IF v = <<>> THEN 40
    ELSE LET parts == split(v, ";")
         IN  IF \E i \in 1..Len(parts) : ~IntParses(parts[i]) THEN 20
             ELSE LET voltages == [i \in 1..Len(parts) |-> int(parts[i])]
                      max_voltage == SeqMax(voltages)
                  IN  IF max_voltage < 1000 THEN 2
                      ELSE IF max_voltage < 20000 THEN 10
                      ELSE IF max_voltage = 35000 THEN 15
                      ELSE IF max_voltage = 110000 THEN 20
                      ELSE IF max_voltage \in {150000, 220000} THEN 25
                      ELSE IF max_voltage \in {330000, 400000, 500000} THEN 30
                      ELSE IF max_voltage = 750000 THEN 40
                      ELSE IF max_voltage = 1150000 THEN 55
                      ELSE 20

\* the values get_thickness returns, lines 134-156
Thicknesses == {2, 10, 15, 20, 25, 30, 40, 55}

(***************************************************************************)
(* Voltage tags as the data source writes them: a list of entries joined   *)
(* by ";".  An entry is a number written in some style, or text that is no *)
(* number.  The writer is the inverse of what get_thickness has to parse.  *)
(***************************************************************************)
RECURSIVE Numeral(_, _, _)
\* n >= 0 written with its last digit from row, the digit before it from
\* other, and so on in turn
Numeral(n, row, other) ==
    IF n < 10 THEN <<row[n + 1]>>
    ELSE Numeral(n \div 10, other, row) \o <<row[(n % 10) + 1]>>

\* str(n) for n >= 0
Decimal(n) == Numeral(n, DigitChars, DigitChars)

\* the digits of the script whose zero is z
ScriptDigits(z) == DigitRows[CHOOSE r \in 1..Len(DigitRows) : DigitRows[r][1] = z]

Entry(style, val, text) == [style |-> style, val |-> val, text |-> text]

EntryText(e) ==
    CASE e.style = "plain" -> Decimal(e.val)
      [] e.style = "blank" -> <<" ">> \o Decimal(e.val) \o <<" ">>
      [] e.style = "plus"  -> <<"+">> \o Decimal(e.val)
      [] e.style = "minus" -> <<"-">> \o Decimal(-e.val)
      [] e.style = "zero"  -> <<"0">> \o Decimal(e.val)
      [] e.style = "group" -> Decimal(e.val \div 1000) \o <<"_">>
                                \o Tail(Decimal(1000 + (e.val % 1000)))
      [] e.style = "tab"   -> <<"\t">> \o Decimal(e.val) \o <<"\n">>
      [] e.style = "nbsp"  -> <<"U+3000">> \o Decimal(e.val) \o <<" ">>
      [] e.style = "script" -> Numeral(e.val, ScriptDigits(e.text[1]), ScriptDigits(e.text[1]))
      [] e.style = "mixed" -> Numeral(e.val, ScriptDigits(e.text[1]), DigitChars)
      [] OTHER -> e.text

RECURSIVE Join(_)
Join(es) ==
    IF Len(es) = 1 THEN EntryText(es[1])
    ELSE EntryText(es[1]) \o <<";">> \o Join(Tail(es))

PlainValues ==
    {0, 999, 1000, 19999, 20000, 34999, 35000, 50000, 110000, 150000, 220000,
     330000, 400000, 500000, 750000, 1000000, 1150000}

\* numbers in the digits of other scripts: Devanagari, Extended
\* Arabic-Indic, Thai, fullwidth, mathematical bold; and one written in
\* ASCII and Arabic-Indic digits in turn
ScriptEntries ==
    {Entry("script", 1, <<"U+0966">>), Entry("script", 5, <<"U+06F0">>),
     Entry("script", 330000, <<"U+0E50">>), Entry("script", 35000, <<"U+FF10">>),
     Entry("script", 1150000, <<"U+1D7CE">>), Entry("mixed", 19999, <<"U+0660">>)}

NumberEntries ==
    {Entry("plain", v, <<>>) : v \in PlainValues}
      \cup {Entry("blank", 35000, <<>>), Entry("plus", 750000, <<>>),
            Entry("minus", -5, <<>>), Entry("zero", 110000, <<>>),
            Entry("group", 220000, <<>>), Entry("tab", 1000, <<>>),
            Entry("nbsp", 1000, <<>>)}
      \cup ScriptEntries

JunkEntries ==
    {Entry("junk", 0, t) : t \in {<<>>, <<"a", "b", "c">>, <<"1", ".", "5">>,
                                   <<"1", "0", "k", "V">>, <<"1", " ", "0">>,
                                   <<"-">>, <<"1", "_", "_", "0">>, <<"_", "1">>,
                                   <<"-", " ", "5">>, <<"", "5">>}}

\* characters that are numbers but no decimal digits: the circled digit one
\* and the Tamil number ten
NumericJunk ==
    {Entry("junk", 0, t) : t \in {<<"U+2460">>, <<"1", "U+0BF0">>}}

Entries == NumberEntries \cup JunkEntries \cup NumericJunk

RECURSIVE SeqsUpTo(_, _)
\* the sequences over S of length 1..n
SeqsUpTo(S, n) ==
    IF n = 0 THEN {}
    ELSE LET shorter == SeqsUpTo(S, n - 1)
         IN  {<<x>> : x \in S} \cup {q \o <<x>> : q \in shorter, x \in S}

TagSources == SeqsUpTo(Entries, MaxParts)

(***************************************************************************)
(* Inputs.  Five sites: at 26.19695 N (where ten units of longitude are    *)
(* 9.995 m), at 26.13853 N (where they are 10 m to within a micrometre),   *)
(* at 87 N (where the padding of 0.01 degree of longitude is 58.46 m), at  *)
(* 89.9 N (where it is 1.94 m), and on the 180th meridian.                 *)
(* Node 1 is the site's origin, node 2 lies 80 units west of it on the     *)
(* same parallel; the residential buildings lie at offsets from the        *)
(* origin.  Id 0 is referenced by ways but is not in the table.            *)
(***************************************************************************)
Sites == {"mid", "edge", "high", "polar", "dateline"}

Origin(site) ==
    CASE site = "mid"      -> <<2619695, 4000000>>
      [] site = "edge"     -> <<2613853, 4000000>>
      [] site = "high"     -> <<8700000, 4000000>>
      [] site = "polar"    -> <<8990000, 4000000>>
      [] site = "dateline" -> <<2619695, -17999995>>

\* longitude brought back into (-180, 180] degrees
WrapLon(lon) ==
    IF lon > HalfTurn THEN lon - 2 * HalfTurn
    ELSE IF lon <= -HalfTurn THEN lon + 2 * HalfTurn
    ELSE lon

At(site, off) == <<Origin(site)[1] + off[1], WrapLon(Origin(site)[2] + off[2])>>

NodeIds == {1, 2}
RefIds == {0} \cup NodeIds
NodeOffset(id) == <<0, -80 * (id - 1)>>

NodeTable(site) == [id \in NodeIds |-> At(site, NodeOffset(id))]
NoNodes == [id \in {} |-> <<0, 0>>]

\* mid: a building 9.995 m west of node 1, and one 3.3 m north of the
\*   middle of the line from node 1 to node 2, 40.12 m from either end.
\* edge: a building 10 m west of node 1, give or take a micrometre: the
\*   reading is 1000 or 1001.
\* high: a building between the nodes' reach (5.85 m and 1.17 m), and one
\*   54.95 m west of node 2.
\* polar: a building 2 cm west of node 1, and one exactly one padding
\*   (1.95 m) west of node 2, 2.11 m from node 1.
\* dateline: buildings 9.995 m and 39.98 m west of node 1, across the
\*   meridian.
ResOffsets(site) ==
    CASE site = "mid"      -> {<<0, -10>>, <<3, -40>>}
      [] site = "edge"     -> {<<0, -10>>}
      [] site = "high"     -> {<<0, -100>>, <<0, -1020>>}
      [] site = "polar"    -> {<<0, -10>>, <<0, -1080>>}
      [] site = "dateline" -> {<<0, -10>>, <<0, -40>>}

\* the raw building nodes of a site
ResRecords(site) ==
    {[lat |-> At(site, off)[1], lon |-> At(site, off)[2]] : off \in ResOffsets(site)}

\* a raw node that came without its 'lat' key
NoLatRecord(site) == [lon |-> Origin(site)[2]]

\* the residential lists: up to MaxRes buildings, or fewer buildings and
\* then the record without 'lat'
ResLists(site) ==
    {<<>>} \cup SeqsUpTo(ResRecords(site), MaxRes)
      \cup {q \o <<NoLatRecord(site)>> :
              q \in {<<>>} \cup SeqsUpTo(ResRecords(site), MaxRes - 1)}

KnownKinds == {"Substation", "Transformer", "Converter", "Communication Tower"}
Kinds == KnownKinds \cup {"Tower"}

\* the power objects a run draws from: every kind at node 1, and a
\* Communication Tower at node 2
PowerObjects == {<<1, k>> : k \in Kinds} \cup {<<2, "Communication Tower">>}

\* the ways a run draws from.  Reference lists: empty, an unknown id only,
\* one vertex, a pair, an unknown id between two vertices, and an interior
\* vertex.  Tags: none, other keys only, a voltage of 1 kV (10 m), of
\* 1150 kV (55 m), or of 5 V written as the Extended Arabic-Indic digit
\* five (2 m).
WayRecords ==
    { [nodes |-> <<>>],
      [nodes |-> <<0>>, tags |-> [power |-> "line"]],
      [nodes |-> <<1>>],
      [nodes |-> <<1, 2>>],
      [nodes |-> <<1, 2>>, tags |-> [voltage |-> Decimal(1000)]],
      [nodes |-> <<1, 2>>,
       tags |-> [voltage |-> Numeral(5, ScriptDigits("U+06F0"), ScriptDigits("U+06F0"))]],
      [nodes |-> <<1, 2>>, tags |-> [voltage |-> Decimal(1150000)]],
      [nodes |-> <<1, 0, 2>>, tags |-> [power |-> "line"]],
      [nodes |-> <<1, 2, 1>>, tags |-> [voltage |-> Decimal(1150000)]] }

\* the pairs of positions line 123 and lines 172-175 can meet: a way vertex
\* or power object and a building of the same site
Measured ==
    UNION { {<<NodeTable(site)[id], At(site, off)>> :
               id \in NodeIds, off \in ResOffsets(site)} : site \in Sites }

\* DistanceBounds of those pairs, worked out once
MeasuredBounds == [pq \in Measured |-> DistanceBounds(pq[1], pq[2])]

\* DistanceBounds(p, q), read from MeasuredBounds where it is there
GeodesicBounds(p, q) ==
    IF <<p, q>> \in DOMAIN MeasuredBounds THEN MeasuredBounds[<<p, q>>]
    ELSE DistanceBounds(p, q)

\* the readings geodesic(p, q).meters can have
geodesic(p, q) == Once({ b[1]..b[2] : b \in {GeodesicBounds(p, q)} })

(***************************************************************************)
(* The run.  The node table and the residential list are fixed when the    *)
(* MapCreator is built.  The lists self.power_objects and self.ways are    *)
(* only ever read one element per loop iteration, in order, and never      *)
(* looked at again: the model draws each element when its iteration        *)
(* starts, so a run iterates any list of at most MaxObj power objects and  *)
(* any list of at most MaxWays ways.  A power object always names a node   *)
(* of the table (fetch_power_objects appends both together, lines 46-51);  *)
(* its kind is whatever the 'power' tag capitalizes to.                    *)
(***************************************************************************)
\* no distance measured
NoReadings == [x \in {} |-> 0]

HasCoords(res_node) == "lat" \in DOMAIN res_node /\ "lon" \in DOMAIN res_node

(***************************************************************************)
(* The reading of a distance is any of the interval lo..hi that            *)
(* GeodesicBounds gives.  The code only compares a distance with the       *)
(* thresholds of lines 124 and 178, so of the interval a run takes lo and, *)
(* where they lie in the interval, each threshold and the reading just     *)
(* above it: for every reading of the interval one of these is at most the *)
(* same thresholds.                                                        *)
(***************************************************************************)
Limits ==
    {Meters(distances[k]) : k \in DOMAIN distances}
      \cup {Meters(t * PowerLineFactor) : t \in Thicknesses}

Marks == {t + d : t \in Limits, d \in {0, 1}}

Representatives(b) == {b[1]} \cup {m \in Marks : b[1] <= m /\ m <= b[2]}

RECURSIVE Choices(_)
\* for a set P of pairs <<x, S>>: the functions taking at each x a value of S
Choices(P) ==
    IF P = {} THEN {NoReadings}
    ELSE Once({ {f @@ (e[1] :> r) : f \in Choices(P \ {e}), r \in e[2]} :
                e \in {CHOOSE e \in P : TRUE} })

\* the pairs of positions whose distance a run can ask for: a node of the
\* table and a building that has its coordinates
Pairs(nd, rn) ==
    {<<nd[id], <<rn[i].lat, rn[i].lon>>>> :
        id \in DOMAIN nd, i \in {j \in 1..Len(rn) : HasCoords(rn[j])}}

\* what geodesic(p, q).meters can be over those pairs: the functions
\* <<p, q>> -> reading
Readings(nd, rn) ==
    Choices({ <<pq, Representatives(GeodesicBounds(pq[1], pq[2]))>> :
              pq \in Pairs(nd, rn) })

Quiet ==
    /\ res_index = {}
    /\ pos = 0
    /\ n_obj = 0
    /\ obj = <<>>
    /\ distance = NoReadings
    /\ n_way = 0
    /\ way = <<>>
    /\ points = <<>>
    /\ scanned = <<>>
    /\ distance_to_line_segment = NoReadings
    /\ thickness = 0
    /\ markers = EmptyBag
    /\ error = ""

Init ==
    /\ pc = "Idle"
    /\ \E site \in Sites :
          /\ nodes \in {NoNodes, NodeTable(site)}
          /\ residential_nodes \in ResLists(site)
    /\ meters \in Readings(nodes, residential_nodes)
    /\ voltage = <<>>
    /\ tag_src = <<>>
    /\ Quiet

\* lines 90-95: an empty node table returns an empty map at once
EarlyReturn ==
    /\ pc = "Idle"
    /\ DOMAIN nodes = {}
    /\ pc' = "Done"
    /\ UNCHANGED <<nodes, residential_nodes, meters, res_index, pos, n_obj, obj, distance,
                   n_way, way, points, scanned, distance_to_line_segment, voltage,
                   thickness, markers, error, tag_src>>

\* lines 90-102: the map and the empty index are created
CreateIndex ==
    /\ pc = "Idle"
    /\ DOMAIN nodes # {}
    /\ pc' = "Indexing"
    /\ res_index' = {}
    /\ UNCHANGED <<nodes, residential_nodes, meters, pos, n_obj, obj, distance, n_way, way,
                   points, scanned, distance_to_line_segment, voltage, thickness,
                   markers, error, tag_src>>

\* lines 103-105, one iteration: the record at position pos is inserted
InsertResidential ==
    /\ pc = "Indexing"
    /\ pos < Len(residential_nodes)
    /\ LET res_node == residential_nodes[pos + 1]
       IN  IF HasCoords(res_node)
           THEN /\ res_index' = res_index \cup
                       {[id |-> pos, box |-> NodeBox(res_node.lat, res_node.lon)]}
                /\ pos' = pos + 1
                /\ UNCHANGED <<pc, error>>
           ELSE /\ pc' = "Error"
                /\ error' = "KeyError: 'lat'"
                /\ UNCHANGED <<res_index, pos>>
    /\ UNCHANGED <<nodes, residential_nodes, meters, n_obj, obj, distance, n_way, way,
                   points, scanned, distance_to_line_segment, voltage, thickness,
                   markers, tag_src>>

\* the index build left before the enumeration is exhausted
IndexBuilt_early ==
    /\ pc = "Indexing"
    /\ pos <= Len(residential_nodes)
    /\ pc' = "PointPass"
    /\ UNCHANGED <<nodes, residential_nodes, meters, res_index, pos, n_obj, obj, distance,
                   n_way, way, points, scanned, distance_to_line_segment, voltage,
                   thickness, markers, error, tag_src>>

\* the enumeration of line 103 is exhausted
IndexBuilt ==
    /\ pc = "Indexing"
    /\ pos = Len(residential_nodes)
    /\ pc' = "PointPass"
    /\ UNCHANGED <<nodes, residential_nodes, meters, res_index, pos, n_obj, obj, distance,
                   n_way, way, points, scanned, distance_to_line_segment, voltage,
                   thickness, markers, error, tag_src>>

Coord(idx) == <<residential_nodes[idx + 1].lat, residential_nodes[idx + 1].lon>>

Marker(idx, popup) == [location |-> Coord(idx), popup |-> popup]

\* one folium.Marker per index position in H
MarkerBag(H, popup) ==
    Once({ [m \in {Marker(idx, popup) : idx \in hits} |->
               Cardinality({idx \in hits : Marker(idx, popup) = m})] :
           hits \in {H} })

ObjectPopup == "Residential Building near Power Object"
LinePopup == "Residential Building near Power Line"

\* line 123 for an object at o and each candidate of ids
PointDistances(o, ids) == [idx \in ids |-> meters[<<o, Coord(idx)>>]]

\* the pairs <<segment number, position>> of the candidates that the queries
\* of the segments return, lines 165-169
SegmentCandidates(segs) ==
    {ij \in (1..Len(segs)) \X {e.id : e \in res_index} :
        ij[2] \in intersection(res_index, SegmentBox(segs[ij[1]][1], segs[ij[1]][2]))}

\* lines 172-175 for each segment and each candidate of its box: the lesser
\* of the distances to the two end points
SegmentDistances(segs) ==
    [ij \in SegmentCandidates(segs) |->
        Min2(meters[<<segs[ij[1]][1], Coord(ij[2])>>],
             meters[<<segs[ij[1]][2], Coord(ij[2])>>])]

\* the comparison of line 124 made strict
NearObject_strict(d, type_) == d < Meters(distances[type_])

\* line 124
NearObject(d, type_) == d <= Meters(distances[type_])

\* the iteration with the threshold looked up before the candidates are
\* examined, so that an unrecognized kind always raises
PowerObject_lookup_first(node_id, type_) ==
    /\ pc = "PointPass"
    /\ n_obj < MaxObj
    /\ LET lat == nodes[node_id][1]
           lon == nodes[node_id][2]
       IN  \E nearby_res_nodes \in {intersection(res_index, PointBox(lat, lon))} :
             IF type_ \notin DOMAIN distances
             THEN /\ pc' = "Error"
                  /\ error' = "KeyError: type_"
                  /\ distance' = NoReadings
                  /\ UNCHANGED markers
             ELSE /\ distance' = PointDistances(<<lat, lon>>, nearby_res_nodes)
                  /\ markers' = markers (+) MarkerBag(
                         {idx \in nearby_res_nodes : NearObject(distance'[idx], type_)},
                         ObjectPopup)
                  /\ UNCHANGED <<pc, error>>
    /\ n_obj' = n_obj + 1
    /\ obj' = <<[node_id |-> node_id, type_ |-> type_]>>
    /\ UNCHANGED <<nodes, residential_nodes, meters, res_index, pos, n_way, way, points,
                   scanned, distance_to_line_segment, voltage, thickness, tag_src>>

\* lines 107-129, one iteration of the loop over self.power_objects; with an
\* unrecognized kind the first candidate's distance is measured and the
\* lookup of line 124 raises
PowerObject(node_id, type_) ==
    /\ pc = "PointPass"
    /\ n_obj < MaxObj
    /\ LET lat == nodes[node_id][1]
           lon == nodes[node_id][2]
       IN  \E nearby_res_nodes \in {intersection(res_index, PointBox(lat, lon))} :
             IF nearby_res_nodes # {} /\ type_ \notin DOMAIN distances
             THEN /\ \E idx \in nearby_res_nodes :
                        distance' = PointDistances(<<lat, lon>>, {idx})
                  /\ pc' = "Error"
                  /\ error' = "KeyError: type_"
                  /\ UNCHANGED markers
             ELSE /\ distance' = PointDistances(<<lat, lon>>, nearby_res_nodes)
                  /\ markers' = markers (+) MarkerBag(
                         {idx \in nearby_res_nodes : NearObject(distance'[idx], type_)},
                         ObjectPopup)
                  /\ UNCHANGED <<pc, error>>
    /\ n_obj' = n_obj + 1
    /\ obj' = <<[node_id |-> node_id, type_ |-> type_]>>
    /\ UNCHANGED <<nodes, residential_nodes, meters, res_index, pos, n_way, way, points,
                   scanned, distance_to_line_segment, voltage, thickness, tag_src>>

\* the loop of line 107 is exhausted
PointsDone ==
    /\ pc = "PointPass"
    /\ pc' = "LinePass"
    /\ obj' = <<>>
    /\ distance' = NoReadings
    /\ UNCHANGED <<nodes, residential_nodes, meters, res_index, pos, n_obj, n_way, way,
                   points, scanned, distance_to_line_segment, voltage, thickness,
                   markers, error, tag_src>>

\* way.get('tags', {}).get('voltage', ''), lines 176 and 185
VoltageOf(w) ==
    LET tags == IF "tags" \in DOMAIN w THEN w.tags ELSE [k \in {} |-> <<>>]
    IN  IF "voltage" \in DOMAIN tags THEN tags.voltage ELSE <<>>

\* line 159
Resolve(refs) ==
    LET kept == SelectSeq(refs, LAMBDA node_id : node_id \in DOMAIN nodes)
    IN  [i \in 1..Len(kept) |-> nodes[kept[i]]]

\* range(len(points) - 1) with the pairs of lines 163-164
Segments(pts) == [i \in 1..(Len(pts) - 1) |-> <<pts[i], pts[i + 1]>>]

\* the comparison of line 178 with a line factor of 2
NearLine_doubled(d, thick) == d <= Meters(thick * 2)

\* line 178
NearLine(d, thick) == d <= Meters(thick * PowerLineFactor)

\* lines 169-183 for segment number i: the positions that get a marker,
\* given the readings d of the way's segments
SegmentHits(i, d, thick) ==
    {x[2] : x \in {y \in DOMAIN d : y[1] = i /\ NearLine(d[y], thick)}}

\* one marker per building and way, however many segments are near it
WayMarkers_dedup(n, d, thick) ==
    MarkerBag(UNION {SegmentHits(i, d, thick) : i \in 1..n}, LinePopup)

RECURSIVE WayMarkers(_, _, _)
\* the markers of segments 1..n
WayMarkers(n, d, thick) ==
    IF n = 0 THEN EmptyBag
    ELSE WayMarkers(n - 1, d, thick) (+) MarkerBag(SegmentHits(n, d, thick), LinePopup)

\* folium.PolyLine(points) validates its locations: an empty list is refused
PolyLineAccepts(locations) == locations # <<>>

\* lines 158-188, one iteration of the loop over self.ways
Way(w) ==
    /\ pc = "LinePass"
    /\ n_way < MaxWays
    /\ n_way' = n_way + 1
    /\ way' = <<w>>
    /\ points' = Resolve(w.nodes)
    /\ scanned' = Segments(points')
    /\ voltage' = VoltageOf(w)
    /\ thickness' = get_thickness(voltage')
    /\ distance_to_line_segment' = SegmentDistances(scanned')
    /\ markers' = markers (+) WayMarkers(Len(scanned'), distance_to_line_segment',
                                         thickness')
    /\ IF PolyLineAccepts(points')
       THEN UNCHANGED <<pc, error>>
       ELSE /\ pc' = "Error"
            /\ error' = "ValueError: Locations is empty."
    /\ UNCHANGED <<nodes, residential_nodes, meters, res_index, pos, n_obj, obj, distance,
                   tag_src>>

\* line 190
Return ==
    /\ pc = "LinePass"
    /\ pc' = "Done"
    /\ UNCHANGED <<nodes, residential_nodes, meters, res_index, pos, n_obj, obj, distance,
                   n_way, way, points, scanned, distance_to_line_segment, voltage,
                   thickness, markers, error, tag_src>>

Next ==
    \/ EarlyReturn
    \/ CreateIndex
    \/ InsertResidential
    \/ IndexBuilt
    \/ \E o \in PowerObjects : o[1] \in DOMAIN nodes /\ PowerObject(o[1], o[2])
    \/ PointsDone
    \/ \E w \in WayRecords : Way(w)
    \/ Return

Spec == Init /\ [][Next]_vars

\* the run is never suspended: a step that can be taken is taken
FairSpec == Spec /\ WF_vars(Next)

(***************************************************************************)
(* get_thickness on its own: the tag is written from its entries and       *)
(* handed to the function.                                                 *)
(***************************************************************************)
InitThickness ==
    /\ pc = "get_thickness"
    /\ nodes = NoNodes
    /\ residential_nodes = <<>>
    /\ meters = NoReadings
    /\ \/ tag_src = <<>> /\ voltage = <<>>
       \/ tag_src \in TagSources /\ voltage = Join(tag_src)
    /\ Quiet

CallGetThickness ==
    /\ pc = "get_thickness"
    /\ thickness' = get_thickness(voltage)
    /\ pc' = "returned"
    /\ UNCHANGED <<nodes, residential_nodes, meters, res_index, pos, n_obj, obj, distance,
                   n_way, way, points, scanned, distance_to_line_segment, voltage,
                   markers, error, tag_src>>

NextThickness == CallGetThickness

SpecThickness == InitThickness /\ [][NextThickness]_vars

(***************************************************************************)
(* Vocabulary of the properties.                                           *)
(***************************************************************************)
\* the positions the index holds
IndexedIds == {e.id : e \in res_index}

\* markers of one kind that the step adds at the building of position idx
Added(idx, popup) ==
    CopiesIn(Marker(idx, popup), markers') - CopiesIn(Marker(idx, popup), markers)

IsObjectStep == pc = "PointPass" /\ n_obj' = n_obj + 1
IsWayStep == pc = "LinePass" /\ n_way' = n_way + 1

\* the position of the object just iterated
ObjectAt(o) == nodes[o.node_id]

\* <<lo, hi>> for the lesser of the distances from the building at position
\* j to the two end points of a segment
EndpointBounds(seg, j) ==
    MinBounds(GeodesicBounds(seg[1], Coord(j)), GeodesicBounds(seg[2], Coord(j)))

\* the readings the endpoint-minimum distance can have
EndpointDistance(seg, j) == Once({ b[1]..b[2] : b \in {EndpointBounds(seg, j)} })

\* the lesser of the distances from the building at position j to the two
\* end points of a segment, as the library has them
EndpointMeters(seg, j) ==
    Min2(meters[<<seg[1], Coord(j)>>], meters[<<seg[2], Coord(j)>>])

\* a position between 87 S and 87 N whose padded box stays inside +-180
AwayFromPoleAndDateline(p) == Abs(p[1]) <= 8700000 /\ Abs(p[2]) + 1000 <= 18000000

(***************************************************************************)
(* C1.  A run that iterates a power object of an unrecognized kind ends in *)
(* an unknown-kind error: after such an object the run is in Error,        *)
(* whatever the residential points are.                                    *)
(***************************************************************************)
C1_UnknownKindIsAnError ==
    (obj # <<>> /\ obj[1].type_ \notin KnownKinds) => pc = "Error"

(***************************************************************************)
(* C2.  get_thickness returns 40 for an absent or empty tag, 20 when some  *)
(* part is no integer, and otherwise maps the largest part m: 2 below      *)
(* 1000, 10 below 20000, 15 for 35000, 20 for 110000, 25 for 150000 and    *)
(* 220000, 30 for 330000, 400000 and 500000, 40 for 750000, 55 for         *)
(* 1150000, 20 for any other m; the result is one of the eight values and  *)
(* no error is raised.  The expected value is read off the entries the tag *)
(* was written from, not parsed from its text.                             *)
(***************************************************************************)
LargestEntry(src) == SeqMax([i \in 1..Len(src) |-> src[i].val])

ExpectedThickness ==
    IF voltage = <<>> THEN 40
    ELSE IF \E i \in 1..Len(tag_src) : tag_src[i].style = "junk" THEN 20
    ELSE LET m == LargestEntry(tag_src)
         IN  CASE m < 1000 -> 2
               [] m >= 1000 /\ m < 20000 -> 10
               [] m = 35000 -> 15
               [] m = 110000 -> 20
               [] m \in {150000, 220000} -> 25
               [] m \in {330000, 400000, 500000} -> 30
               [] m = 750000 -> 40
               [] m = 1150000 -> 55
               [] OTHER -> 20

C2_ThicknessTable ==
    pc = "returned" =>
        /\ thickness = ExpectedThickness
        /\ thickness \in Thicknesses
        /\ error = ""

\* the tag of the two parts 110000 and, in Devanagari digits, 1 (the
\* character U+0967) gave 20
C2_Witness ==
    /\ pc = "returned"
    /\ tag_src = <<Entry("plain", 110000, <<>>), Entry("script", 1, <<"U+0966">>)>>
    /\ voltage = <<"1", "1", "0", "0", "0", "0", ";", "U+0967">>
    /\ thickness = 20

(***************************************************************************)
(* C3.  Point pass: for an object o of a recognized kind, the distance     *)
(* from o is measured for exactly the candidates of o's padded box, and    *)
(* the iteration adds a hit for a candidate r exactly when the distance    *)
(* measured, distance(o, r), is <= threshold, the boundary included; the   *)
(* threshold is 45 m for a Communication Tower and 10 m for the other      *)
(* three kinds.  (Buildings at the same coordinates share their markers,   *)
(* so hits are counted per coordinate.)                                    *)
(***************************************************************************)
C3_PointHitIffWithinThreshold ==
    [][ (IsObjectStep /\ obj'[1].type_ \in KnownKinds) =>
          LET o == ObjectAt(obj'[1])
              limit == IF obj'[1].type_ = "Communication Tower" THEN 4500 ELSE 1000
              cand == intersection(res_index, PointBox(o[1], o[2]))
          IN  /\ DOMAIN distance' = cand
              /\ \A idx \in cand :
                    /\ distance'[idx] \in geodesic(o, Coord(idx))
                    /\ Added(idx, ObjectPopup) =
                          Cardinality({j \in cand : /\ Coord(j) = Coord(idx)
                                                    /\ distance'[j] <= limit})
                    /\ Added(idx, LinePopup) = 0
      ]_vars

\* a Substation with a building 9.995 m away, whose distance can only read
\* 10 m: one hit; and a building 40.12 m away in the same box, which a
\* Communication Tower would reach: none
C3_Witness ==
    /\ pc = "PointPass"
    /\ n_obj = 1
    /\ obj = <<[node_id |-> 1, type_ |-> "Substation"]>>
    /\ Len(residential_nodes) = 2
    /\ geodesic(nodes[1], Coord(0)) = {1000}
    /\ geodesic(nodes[1], Coord(1)) = {4012}
    /\ distance = (0 :> 1000) @@ (1 :> 4012)
    /\ CopiesIn(Marker(0, ObjectPopup), markers) = 1
    /\ CopiesIn(Marker(1, ObjectPopup), markers) = 0

(***************************************************************************)
(* C4.  Line pass: for every segment (a, b) of the way the endpoint        *)
(* minimum min(distance(a, r), distance(b, r)) is measured for exactly the *)
(* candidates r of the segment's padded box, and a hit is added for r      *)
(* exactly when it is <= the thickness of the way's voltage, the thickness *)
(* taken as metres with no factor.  Per building the way adds as many hits *)
(* as it has such segments.                                                *)
(***************************************************************************)
C4_LineHitIffEndpointWithinThickness ==
    [][ IsWayStep =>
          LET limit == 100 * get_thickness(VoltageOf(way'[1]))
              cand == SegmentCandidates(scanned')
          IN  /\ DOMAIN distance_to_line_segment' = cand
              /\ \A ij \in cand :
                    distance_to_line_segment'[ij] \in EndpointDistance(scanned'[ij[1]], ij[2])
              /\ \A idx \in IndexedIds :
                    /\ Added(idx, LinePopup) =
                          Cardinality({ij \in cand :
                             /\ Coord(ij[2]) = Coord(idx)
                             /\ distance_to_line_segment'[ij] <= limit})
                    /\ Added(idx, ObjectPopup) = 0
      ]_vars

\* a line of 80 m without voltage tag (40 m): the building 9.995 m from its
\* eastern end is hit, the building 3.3 m north of its middle, 40.12 m from
\* either end, is not
C4_Witness ==
    /\ pc = "LinePass"
    /\ way = <<[nodes |-> <<1, 2>>]>>
    /\ thickness = 40
    /\ Len(residential_nodes) = 2
    /\ Coord(1)[1] - nodes[1][1] = 3
    /\ nodes[2][2] < Coord(1)[2] /\ Coord(1)[2] < nodes[1][2]
    /\ distance_to_line_segment = (<<1, 0>> :> 1000) @@ (<<1, 1>> :> 4012)
    /\ EndpointDistance(<<nodes[1], nodes[2]>>, 1) = {4012}
    /\ CopiesIn(Marker(0, LinePopup), markers) = 1
    /\ CopiesIn(Marker(1, LinePopup), markers) = 0

(***************************************************************************)
(* C5.  As claimed: the index misses nothing.  Whenever an object of a     *)
(* recognized kind is iterated, every indexed building whose distance from *)
(* it is within its threshold is returned by the padded-box query, has its *)
(* distance measured, and gets a hit; whenever a way is iterated, the same *)
(* holds of each segment and every indexed building whose endpoint-minimum *)
(* distance is within the thickness.                                       *)
(***************************************************************************)
ObjectCovered(o, type_) ==
    \A j \in IndexedIds :
        meters[<<o, Coord(j)>>] <= 100 * distances[type_] =>
            /\ j \in intersection(res_index, PointBox(o[1], o[2]))
            /\ j \in DOMAIN distance'
            /\ distance'[j] = meters[<<o, Coord(j)>>]
            /\ Added(j, ObjectPopup) >= 1

SegmentCovered(i, limit) ==
    \A j \in IndexedIds :
        EndpointMeters(scanned'[i], j) <= limit =>
            /\ j \in intersection(res_index, SegmentBox(scanned'[i][1], scanned'[i][2]))
            /\ <<i, j>> \in DOMAIN distance_to_line_segment'
            /\ distance_to_line_segment'[<<i, j>>] = EndpointMeters(scanned'[i], j)
            /\ Added(j, LinePopup) >= 1

C5_IndexMissesNothing ==
    [][ /\ (IsObjectStep /\ obj'[1].type_ \in KnownKinds) =>
              ObjectCovered(ObjectAt(obj'[1]), obj'[1].type_)
        /\ IsWayStep =>
              \A i \in 1..Len(scanned') :
                  SegmentCovered(i, 100 * get_thickness(VoltageOf(way'[1])))
      ]_vars

(***************************************************************************)
(* C5, amended.  The same, for objects and segment endpoints between 87 S  *)
(* and 87 N whose padded box does not reach across the 180th meridian.     *)
(***************************************************************************)
C5_IndexMissesNothingAwayFromPoleAndDateline ==
    [][ /\ ( /\ IsObjectStep
             /\ obj'[1].type_ \in KnownKinds
             /\ AwayFromPoleAndDateline(ObjectAt(obj'[1])) ) =>
              ObjectCovered(ObjectAt(obj'[1]), obj'[1].type_)
        /\ IsWayStep =>
              \A i \in 1..Len(scanned') :
                  ( /\ AwayFromPoleAndDateline(scanned'[i][1])
                    /\ AwayFromPoleAndDateline(scanned'[i][2]) ) =>
                  SegmentCovered(i, 100 * get_thickness(VoltageOf(way'[1])))
      ]_vars

\* at 87 N, where the padding is 58.46 m, a line of 1150 kV (55 m): the
\* building 54.95 m west of its western end is found through the index and
\* marked
C5_Witness ==
    /\ pc = "LinePass"
    /\ way = <<[nodes |-> <<1, 2>>, tags |-> [voltage |-> Decimal(1150000)]]>>
    /\ thickness = 55
    /\ nodes[1][1] = 8700000
    /\ AwayFromPoleAndDateline(nodes[1])
    /\ AwayFromPoleAndDateline(nodes[2])
    /\ Len(residential_nodes) = 1
    /\ geodesic(nodes[2], Coord(0)) = {5495}
    /\ GeodesicBounds(nodes[1], Coord(0))[1] > 5500
    /\ distance_to_line_segment = (<<1, 0>> :> 5495)
    /\ CopiesIn(Marker(0, LinePopup), markers) = 1

(***************************************************************************)
(* C6.  As claimed: a residential record without coordinates is dropped    *)
(* and the run goes on; it never ends the run with an error.               *)
(***************************************************************************)
C6_MissingCoordinatesAreDropped ==
    \A i \in 1..Len(residential_nodes) :
        ~HasCoords(residential_nodes[i]) =>
            ~(pc = "Error" /\ pos = i - 1 /\ error = "KeyError: 'lat'")

(***************************************************************************)
(* C7.  As claimed: for every way iterated, the vertex list is the way's   *)
(* references with the ids missing from the node table removed, order      *)
(* kept; the segments scanned are exactly the consecutive pairs of that    *)
(* list, so n vertices give max(n - 1, 0) segments; with 0 or 1 vertices   *)
(* there is no segment, no hit and no error.                               *)
(***************************************************************************)
RECURSIVE KnownVertices(_)
KnownVertices(refs) ==
    IF refs = <<>> THEN <<>>
    ELSE (IF refs[1] \in DOMAIN nodes THEN <<nodes[refs[1]]>> ELSE <<>>)
            \o KnownVertices(Tail(refs))

C7_SegmentsAreConsecutiveResolvedPairs ==
    [][ IsWayStep =>
          LET n == Len(points')
          IN  /\ points' = KnownVertices(way'[1].nodes)
              /\ Len(scanned') = (IF n >= 1 THEN n - 1 ELSE 0)
              /\ \A i \in 1..Len(scanned') : scanned'[i] = <<points'[i], points'[i + 1]>>
              /\ pc' # "Error" /\ error' = ""
              /\ n <= 1 => (scanned' = <<>> /\ markers' = markers)
      ]_vars

(***************************************************************************)
(* C8.  As claimed: with no residential point the run goes to Done without *)
(* iterating any power object or way, raises no error and has no hit.      *)
(***************************************************************************)
C8_EmptyResidentialShortCircuits ==
    residential_nodes = <<>> =>
        /\ n_obj = 0 /\ n_way = 0
        /\ error = ""
        /\ markers = EmptyBag

(***************************************************************************)
(* C8, amended.  With no residential point the run still iterates the      *)
(* power objects and the ways (there is no short cut).  Every query        *)
(* returns nothing, so there is never a hit and never an unknown-kind      *)
(* error, not even for an object of unrecognized kind.  The run ends in    *)
(* Done, or in the ValueError that drawing a way without any resolved      *)
(* vertex raises; it raises no other error.                                *)
(***************************************************************************)
C8_EmptyResidentialScansWithoutHit ==
    /\ [](residential_nodes = <<>> =>
            /\ res_index = {}
            /\ markers = EmptyBag
            /\ pc # "Error" => error = ""
            /\ pc = "Error" =>
                  /\ error = "ValueError: Locations is empty."
                  /\ way # <<>> /\ points = <<>>)
    /\ (residential_nodes = <<>>) ~> (pc \in {"Done", "Error"})

\* a finished run without residential points that iterated an object of
\* unrecognized kind and a way
C8_Witness ==
    /\ residential_nodes = <<>>
    /\ pc = "Done"
    /\ n_obj = MaxObj
    /\ obj = <<>>
    /\ n_way = MaxWays
    /\ Len(points) >= 2
    /\ markers = EmptyBag

(***************************************************************************)
(* C9.  As claimed: every run goes through Idle, Indexed, Scanning, Done,  *)
(* so a run that is Done has indexed every residential point.              *)
(***************************************************************************)
IndexComplete ==
    /\ pos = Len(residential_nodes)
    /\ \A i \in 1..Len(residential_nodes) : HasCoords(residential_nodes[i])
    /\ res_index =
          {[id |-> i - 1,
            box |-> NodeBox(residential_nodes[i].lat, residential_nodes[i].lon)] :
             i \in 1..Len(residential_nodes)}

C9_DoneRunsWentThroughIndexed ==
    pc = "Done" =>
        \A i \in 1..Len(residential_nodes) :
            HasCoords(residential_nodes[i]) =>
                [id |-> i - 1,
                 box |-> NodeBox(residential_nodes[i].lat, residential_nodes[i].lon)]
                   \in res_index

(***************************************************************************)
(* C9, amended.  A run over an empty node table returns at once, from Idle *)
(* to Done, with nothing indexed and nothing scanned.  Every other run     *)
(* goes Idle, index build, point pass, line pass, Done: every residential  *)
(* point is in the index, under its list position, before the first query; *)
(* power objects are iterated only in the point pass and ways only in the  *)
(* line pass that follows it; the residential list never changes and the   *)
(* index does not change once the point pass has begun.  Every run ends in *)
(* Done or in an error.                                                    *)
(***************************************************************************)
PhaseEdges ==
    { <<"Idle", "Indexing">>, <<"Indexing", "PointPass">>, <<"PointPass", "LinePass">>,
      <<"LinePass", "Done">>, <<"Indexing", "Error">>, <<"PointPass", "Error">>,
      <<"LinePass", "Error">>, <<"Idle", "Done">> }

C9_PhasesInOrderUnlessNoNodes ==
    /\ [][ pc' # pc =>
             /\ <<pc, pc'>> \in PhaseEdges
             /\ (pc = "Idle" /\ pc' = "Done") <=> (pc = "Idle" /\ DOMAIN nodes = {})
         ]_vars
    /\ []( pc \in {"PointPass", "LinePass"} => IndexComplete )
    /\ []( (pc = "Done" /\ DOMAIN nodes # {}) => IndexComplete )
    /\ []( (pc = "Done" /\ DOMAIN nodes = {}) =>
              (res_index = {} /\ pos = 0 /\ n_obj = 0 /\ n_way = 0) )
    /\ [][ /\ n_obj' # n_obj => pc = "PointPass"
           /\ n_way' # n_way => pc = "LinePass"
           /\ residential_nodes' = residential_nodes
           /\ res_index \subseteq res_index'
           /\ pc \notin {"Idle", "Indexing"} => res_index' = res_index
         ]_vars
    /\ <>( pc \in {"Done", "Error"} )

\* a full run: two buildings indexed, objects and a way iterated, hits made
C9_Witness ==
    /\ pc = "Done"
    /\ DOMAIN nodes # {}
    /\ Len(residential_nodes) = MaxRes
    /\ Cardinality(res_index) = MaxRes
    /\ n_obj = MaxObj
    /\ n_way = MaxWays
    /\ markers # EmptyBag


(***************************************************************************)
(* C10.  As claimed: hits are counted over all sources within threshold.   *)
(* Each iterated object of a recognized kind adds one hit for every        *)
(* indexed building within its threshold, each iterated way one hit for    *)
(* every building and every segment whose endpoint-minimum distance is     *)
(* within the thickness, and no other step adds or removes a hit.          *)
(* (Buildings at the same coordinates share their markers.)                *)
(***************************************************************************)
Twins(idx) == {j \in IndexedIds : Coord(j) = Coord(idx)}

TotalAdded(idx) == Added(idx, ObjectPopup) + Added(idx, LinePopup)

C10_HitsCountEverySourceWithinThreshold ==
    [][ \A idx \in IndexedIds :
          TotalAdded(idx) =
            IF IsObjectStep /\ obj'[1].type_ \in KnownKinds
            THEN Cardinality({j \in Twins(idx) :
                    meters[<<ObjectAt(obj'[1]), Coord(j)>>]
                       <= 100 * distances[obj'[1].type_]})
            ELSE IF IsWayStep
            THEN Cardinality({ij \in (1..Len(scanned')) \X Twins(idx) :
                    EndpointMeters(scanned'[ij[1]], ij[2])
                       <= 100 * get_thickness(VoltageOf(way'[1]))})
            ELSE 0
      ]_vars

(***************************************************************************)
(* C10, amended.  The same count, over the sources whose padded-box query  *)
(* returns the building: each iterated object of a recognized kind adds    *)
(* one hit per building that its query returns and whose distance measured *)
(* is within its threshold; each iterated way adds, per building, one hit  *)
(* for every segment whose query returns the building and whose            *)
(* endpoint-minimum distance measured is within the thickness; no other    *)
(* step adds or removes a hit.  Nothing is deduplicated.                   *)
(***************************************************************************)
C10_HitsCountEverySourceTheIndexReturns ==
    [][ \A idx \in IndexedIds :
          TotalAdded(idx) =
            IF IsObjectStep /\ obj'[1].type_ \in KnownKinds
            THEN LET o == ObjectAt(obj'[1])
                 IN  Cardinality({j \in Twins(idx) :
                        /\ j \in intersection(res_index, PointBox(o[1], o[2]))
                        /\ distance'[j] <= 100 * distances[obj'[1].type_]})
            ELSE IF IsWayStep
            THEN Cardinality({ij \in (1..Len(scanned')) \X Twins(idx) :
                    /\ ij \in SegmentCandidates(scanned')
                    /\ distance_to_line_segment'[ij]
                          <= 100 * get_thickness(VoltageOf(way'[1]))})
            ELSE 0
      ]_vars

\* the end of a run over two objects and two ways of 1150 kV (55 m), with
\* the one building 40.12 m from both nodes: two hits from the objects,
\* which both are Communication Towers, and three from the ways, the last
\* of which runs 1, 2, 1 and hits once for each of its two segments
C10_Witness ==
    /\ pc = "Done"
    /\ n_obj = 2
    /\ n_way = 2
    /\ Len(residential_nodes) = 1
    /\ geodesic(nodes[1], Coord(0)) = {4012}
    /\ geodesic(nodes[2], Coord(0)) = {4012}
    /\ way = <<[nodes |-> <<1, 2, 1>>, tags |-> [voltage |-> Decimal(1150000)]]>>
    /\ distance_to_line_segment = (<<1, 0>> :> 4012) @@ (<<2, 0>> :> 4012)
    /\ CopiesIn(Marker(0, ObjectPopup), markers) = 2
    /\ CopiesIn(Marker(0, LinePopup), markers) = 3

====
